---- MODULE Spec2Model ----
(***************************************************************************)
(* A model of shellby's bash_async (src/shellby/shell.py): the command     *)
(* construction, the OutputHandler sink, the two stream tailers and the    *)
(* run's control flow from the stdin assertion to the returned result or   *)
(* the raised ShellException.                                              *)
(*                                                                         *)
(* Text is a sequence of one-character strings, bytes a sequence of        *)
(* integers.  A child's output stream is the sequence of the byte lines    *)
(* that StreamReader.readline() hands out one by one: every line but the   *)
(* last ends with the byte 10, and end-of-input is the empty byte string.  *)
(***************************************************************************)
EXTENDS Integers, Sequences, FiniteSets, TLC

VARIABLES
    pc,          \* position of bash_async
    req,         \* the keyword arguments of the call
    command,     \* the Command built at line 175
    stdin,       \* the local `stdin` after line 185
    printed,     \* what OutputHandler.print has written to sys.stderr, in order
    spawned,     \* the arguments handed to create_subprocess_shell
    childIn,     \* the child's stdin pipe: bytes written, and whether it is closed
    written,     \* per channel: every line the child writes to that stream
    stream,      \* per channel: the lines not yet read
    tpc,         \* per channel: position of the task gather() runs for it
    captured,    \* per channel: _tail_stream's local `captured`
    empty_lines, \* per channel: _tail_stream's local `empty_lines`
    collected,   \* per channel: the value the task returned
    returncode,  \* proc.returncode
    result,      \* the ShellResult of line 207
    exc,         \* the exception that left bash_async
    pp           \* the pipes between runner and child, counted in bytes

vars == <<pc, req, command, stdin, printed, spawned, childIn, written, stream,
          tpc, captured, empty_lines, collected, returncode, result, exc, pp>>

(***************************************************************************)
(* Bounds.                                                                 *)
(***************************************************************************)
MaxLines == 3

MaxErrLines == 1

(***************************************************************************)
(* Values.                                                                 *)
(***************************************************************************)
None == [type |-> "None"]

Str(t) == [type |-> "str", val |-> t]

Bytes(b) == [type |-> "bytes", val |-> b]

Other(n) == [type |-> "int", val |-> n]

\* a pathlib.Path, by its text
Path(t) == [type |-> "Path", val |-> t]

\* a list of values
List(l) == [type |-> "list", val |-> l]

\* Python truthiness of None, str, bytes, Path, list and int values
Truthy(v) ==
    CASE v.type = "None" -> FALSE
      [] v.type = "int" -> v.val # 0
      [] v.type = "Path" -> TRUE
      [] OTHER -> v.val # <<>>

Channels == {"stdout", "stderr"}

(***************************************************************************)
(* UTF-8: the characters the model uses and their encodings.               *)
(***************************************************************************)
Utf8 ==
    [c \in {"\n", " ", "a", "e", "h", "é"} |->
        CASE c = "\n" -> <<10>>
          [] c = " " -> <<32>>
          [] c = "a" -> <<97>>
          [] c = "e" -> <<101>>
          [] c = "h" -> <<104>>
          [] OTHER -> <<195, 169>>]

RECURSIVE encode(_)
encode(text) ==
    IF text = <<>> THEN <<>> ELSE Utf8[Head(text)] \o encode(Tail(text))

\* bytes.decode("utf-8"): one character for each lead byte, made of the lead
\* byte and the continuation bytes (128..191) behind it
decode(bytes) ==
    LET leads   == {i \in 1..Len(bytes) : bytes[i] \notin 128..191}
        lead(k) == CHOOSE i \in leads : Cardinality({j \in leads : j <= i}) = k
        char(i) == CHOOSE c \in DOMAIN Utf8 :
                      /\ i + Len(Utf8[c]) - 1 <= Len(bytes)
                      /\ SubSeq(bytes, i, i + Len(Utf8[c]) - 1) = Utf8[c]
    IN  IF bytes = <<>> THEN <<>>
        ELSE [k \in 1..Cardinality(leads) |-> char(lead(k))]

Whitespace == {"\n", " "}

RECURSIVE rstrip(_)
rstrip(text) ==
    IF text # <<>> /\ text[Len(text)] \in Whitespace
    THEN rstrip(SubSeq(text, 1, Len(text) - 1))
    ELSE text

RECURSIVE lstrip(_)
lstrip(text) ==
    IF text # <<>> /\ Head(text) \in Whitespace THEN lstrip(Tail(text)) ELSE text

strip(text) == lstrip(rstrip(text))

\* "".join(parts)
RECURSIVE join(_)
join(parts) == IF parts = <<>> THEN <<>> ELSE Head(parts) \o join(Tail(parts))

(***************************************************************************)
(* Quoting and command construction.                                       *)
(***************************************************************************)
\* the characters shlex.quote leaves unquoted: [A-Za-z0-9_@%+=:,./-]
SafeChars ==
    {"a", "b", "c", "d", "e", "g", "h", "i", "l", "n", "o", "r", "s", "t", "u",
     "0", "1", "_", "@", "%", "+", "=", ":", ",", ".", "/", "-"}

\* s.replace("'", "\\'"): a backslash before each quote
RECURSIVE escapeQuotesBackslash(_)
escapeQuotesBackslash(s) ==
    IF s = <<>> THEN <<>>
    ELSE (IF Head(s) = "'" THEN <<"\\", "'">> ELSE <<Head(s)>>)
         \o escapeQuotesBackslash(Tail(s))

\* s.replace("'", "'\"'\"'")
RECURSIVE escapeQuotes(_)
escapeQuotes(s) ==
    IF s = <<>> THEN <<>>
    ELSE (IF Head(s) = "'" THEN <<"'", "\"", "'", "\"", "'">> ELSE <<Head(s)>>)
         \o escapeQuotes(Tail(s))

\* shlex.quote
shlex_quote(s) ==
    IF s = <<>> THEN <<"'", "'">>
    ELSE IF \A i \in 1..Len(s) : s[i] \in SafeChars THEN s
    ELSE <<"'">> \o escapeQuotes(s) \o <<"'">>

\* quote raises for a value that is neither a Path nor bytes nor str
quoteRaises(value) == value.type \notin {"Path", "bytes", "str"}

quote(value) == shlex_quote(value.val)

\* " ".join(parts)
RECURSIVE joinSpace(_)
joinSpace(parts) ==
    IF parts = <<>> THEN <<>>
    ELSE IF Len(parts) = 1 THEN Head(parts)
    ELSE Head(parts) \o <<" ">> \o joinSpace(Tail(parts))

join_command(args) == joinSpace([i \in 1..Len(args) |-> quote(args[i])])

\* Command.__init__ with line 57 as "cd %s && %s", without the subshell
CommandNoSubshell(cmd, user, directory) ==
    LET string == IF cmd.type = "list" THEN join_command(cmd.val) ELSE cmd.val
        inner  == IF Truthy(directory)
                  THEN <<"c", "d", " ">> \o quote(directory) \o <<" ", "&", "&", " ">>
                       \o string
                  ELSE string
        bash   == << <<"b", "a", "s", "h">>, <<"-", "c">>, inner >>
        full   == IF user # None
                  THEN << <<"s", "u", "d", "o">>,
                          <<"-", "-", "u", "s", "e", "r", "=">> \o user.val,
                          <<"-", "-", "l", "o", "g", "i", "n">> >> \o bash
                  ELSE bash
    IN  [directory   |-> directory,
         user        |-> user,
         string      |-> string,
         full        |-> full,
         full_string |-> joinSpace([i \in 1..Len(full) |-> shlex_quote(full[i])])]

\* Command.__init__: `cmd` is a str or a list of str and Path values, `user`
\* is None or a str, `directory` is None, a str or a Path
Command(cmd, user, directory) ==
    LET string == IF cmd.type = "list" THEN join_command(cmd.val) ELSE cmd.val
        inner  == IF Truthy(directory)
                  THEN <<"c", "d", " ">> \o quote(directory) \o <<" ", "&", "&", " ", "(">>
                       \o string \o <<")">>
                  ELSE string
        bash   == << <<"b", "a", "s", "h">>, <<"-", "c">>, inner >>
        full   == IF user # None
                  THEN << <<"s", "u", "d", "o">>,
                          <<"-", "-", "u", "s", "e", "r", "=">> \o user.val,
                          <<"-", "-", "l", "o", "g", "i", "n">> >> \o bash
                  ELSE bash
    IN  [directory   |-> directory,
         user        |-> user,
         string      |-> string,
         full        |-> full,
         full_string |-> joinSpace([i \in 1..Len(full) |-> shlex_quote(full[i])])]

(***************************************************************************)
(* OutputHandler.  An entry of `printed` is one call of print(): its       *)
(* symbol and string, the method that made it and, for a tailer's call,    *)
(* the channel it came from.  The display name and the ANSI colouring of   *)
(* the strings are left out.                                               *)
(***************************************************************************)
\* OutputHandler.print
print(log, op, ch, symbol, string) ==
    Append(log, [op |-> op, ch |-> ch, symbol |-> symbol, string |-> string])

\* OutputHandler.open
open(log, handler) ==
    IF ~handler.quiet
    THEN print(log, "open", "-", IF handler.user = Str(<<"r", "o", "o", "t">>) THEN "#" ELSE "$",
               handler.command.string)
    ELSE log

\* OutputHandler.close, were it to report a successful exit only
closeOnSuccessOnly(log, handler, return_code) ==
    IF handler.quiet \/ return_code # 0 THEN log
    ELSE print(log, "close", "-", "[check]", <<>>)

\* OutputHandler.close
close(log, handler, return_code) ==
    IF handler.quiet THEN log
    ELSE IF return_code = 0
    THEN print(log, "close", "-", "[check]", <<>>)
    ELSE print(log, "close", "-", ":", <<"exit with", return_code>>)

\* OutputHandler.exception
exception(log, e) == print(log, "exception", "-", ":", <<"[ERR!]", e>>)

\* OutputHandler.__init__ as bash_async calls it, or the handler the caller passed
OutputHandler(cmd, r) ==
    [command |-> cmd, user |-> cmd.user, capture |-> r.capture,
     display |-> r.display, quiet |-> r.quiet]

RECURSIVE blanks(_, _, _)
blanks(log, ch, n) ==
    IF n = 0 THEN log ELSE blanks(print(log, "line", ch, ">", <<>>), ch, n - 1)

(***************************************************************************)
(* The calls of bash_async the model makes, and the children it runs.      *)
(***************************************************************************)
Commands == {Str(<<"l", "s">>)}

Users == {None, Str(<<"r", "o", "o", "t">>)}

Stdins == {None, Str(<<>>), Bytes(<<>>), Str(<<"h", "é">>), Bytes(<<104>>), Other(5)}

\* capture is FALSE only in a handler the caller passes as `output`
AllRequests ==
    [command : Commands, user : Users, stdin : Stdins, check : BOOLEAN,
     display : BOOLEAN, quiet : BOOLEAN, capture : BOOLEAN]

\* the calls checked: every user and stdin with the default flags, and every
\* combination of the flags with no user and no stdin
Requests ==
    {r \in AllRequests :
        \/ r.user = None /\ r.stdin = None
        \/ r.check /\ r.display /\ ~r.quiet /\ r.capture}

ExitCodes == {0, 7, -9}

\* the byte lines of a stream: blank, whitespace-only, text, and text that
\* the stream ends in without a terminator
OutLines == {<<10>>, <<32, 10>>, <<32, 97, 32, 10>>}

OutLast == {<<32, 97>>}

ErrLines == {<<10>>, <<101, 10>>}

Streams(lines, last, n) ==
    UNION {{s \in [1..k -> lines \cup last] : \A i \in 1..(k - 1) : s[i] \in lines} :
           k \in 0..n}

NoProc == [c \in Channels |-> <<>>]

Init ==
    /\ pc = "Start"
    /\ req \in Requests
    /\ command = None
    /\ stdin = None
    /\ printed = <<>>
    /\ spawned = None
    /\ childIn = [pipe |-> FALSE, data |-> <<>>, closed |-> FALSE]
    /\ written = NoProc
    /\ stream = NoProc
    /\ tpc = [c \in Channels |-> "none"]
    /\ captured = NoProc
    /\ empty_lines = [c \in Channels |-> 0]
    /\ collected = [c \in Channels |-> None]
    /\ returncode = None
    /\ result = None
    /\ exc = None
    /\ pp = None

\* line 175
bashCommand(r) == Command(r.command, None, None)

\* lines 184-185
encodeStdin(v) == IF v.type = "str" THEN Bytes(encode(v.val)) ELSE v

\* line 173 with the assertion left out
stdinAnything(v) == TRUE

\* line 173: type(stdin) in (type(None), bytes, str)
stdinAllowed(v) == v.type \in {"None", "bytes", "str"}

\* lines 173-185: the assertion, the Command, the OutputHandler, the encoding
Build ==
    /\ pc = "Start"
    /\ IF stdinAllowed(req.stdin)
       THEN /\ command' = bashCommand(req)
            /\ stdin' = encodeStdin(req.stdin)
            /\ pc' = "Built"
            /\ exc' = exc
       ELSE /\ exc' = [type |-> "AssertionError"]
            /\ pc' = "Error"
            /\ UNCHANGED <<command, stdin>>
    /\ UNCHANGED <<req, printed, spawned, childIn, written, stream, tpc, captured,
                   empty_lines, collected, returncode, result, pp>>

output == OutputHandler(command, req)

\* line 187
Open ==
    /\ pc = "Built"
    /\ printed' = open(printed, output)
    /\ pc' = "Opened"
    /\ UNCHANGED <<req, command, stdin, spawned, childIn, written, stream, tpc,
                   captured, empty_lines, collected, returncode, result, exc, pp>>

\* the arguments of create_subprocess_shell, lines 188-194
spawnArgs(cmd, in) ==
    [cmd |-> cmd.full_string, stdin |-> IF Truthy(in) THEN "PIPE" ELSE "None"]

\* lines 188-194: the child is created, with the output it is going to write
SpawnOk ==
    /\ pc = "Opened"
    /\ spawned' = spawnArgs(command, stdin)
    /\ childIn' = [childIn EXCEPT !.pipe = (spawned'.stdin = "PIPE")]
    /\ \E so \in Streams(OutLines, OutLast, MaxLines),
          se \in Streams(ErrLines, {}, MaxErrLines) :
          /\ written' = [stdout |-> so, stderr |-> se]
          /\ stream' = written'
    /\ pc' = "Spawned"
    /\ UNCHANGED <<req, command, stdin, printed, tpc, captured, empty_lines,
                   collected, returncode, result, exc, pp>>

\* lines 188-194: create_subprocess_shell raises, and nothing catches it
SpawnFail ==
    /\ pc = "Opened"
    /\ spawned' = spawnArgs(command, stdin)
    /\ exc' = [type |-> "OSError"]
    /\ pc' = "Error"
    /\ UNCHANGED <<req, command, stdin, printed, childIn, written, stream, tpc,
                   captured, empty_lines, collected, returncode, result, pp>>

\* lines 196-201: collect() makes a coroutine that does not run yet; the
\* payload is written, drained and the pipe closed
WriteStdin ==
    /\ pc = "Spawned"
    /\ childIn' = IF Truthy(stdin)
                  THEN [childIn EXCEPT !.data = stdin.val, !.closed = TRUE]
                  ELSE childIn
    /\ pc' = "StdinDone"
    /\ UNCHANGED <<req, command, stdin, printed, spawned, written, stream, tpc,
                   captured, empty_lines, collected, returncode, result, exc, pp>>

\* line 203 and lines 94-103: awaiting the coroutine runs collect(), whose
\* gather() starts one task per stream
StartCollect ==
    /\ pc = "StdinDone"
    /\ tpc' = [c \in Channels |-> IF output.display THEN "tail" ELSE "read"]
    /\ pc' = "Draining"
    /\ UNCHANGED <<req, command, stdin, printed, spawned, childIn, written, stream,
                   captured, empty_lines, collected, returncode, result, exc, pp>>

\* lines 88-92 with readline() in the place of read()
readFirstLine(handler, lines) ==
    Str(decode(IF lines = <<>> THEN <<>> ELSE Head(lines)))

\* lines 88-92: the whole stream, decoded; self.capture is not looked at
read_encoded(handler, lines) == Str(decode(join(lines)))

\* lines 88-92: _read_encoded reads the stream to its end and decodes it
ReadEncoded(ch) ==
    /\ pc = "Draining"
    /\ tpc[ch] = "read"
    /\ collected' = [collected EXCEPT ![ch] = read_encoded(output, stream[ch])]
    /\ stream' = [stream EXCEPT ![ch] = <<>>]
    /\ tpc' = [tpc EXCEPT ![ch] = "closed"]
    /\ UNCHANGED <<pc, req, command, stdin, printed, spawned, childIn, written,
                   captured, empty_lines, returncode, result, exc, pp>>

\* lines 148-149, capturing the line as it is displayed
captureStripped(handler, buf, line) ==
    IF handler.capture THEN Append(buf, rstrip(line)) ELSE buf

\* lines 148-149
capture(handler, buf, line) == IF handler.capture THEN Append(buf, line) ELSE buf

\* line 150, with the empty string of end-of-input taken for text
isBlankButEof(line) == line # <<>> /\ strip(line) = <<>>

\* line 150
isBlank(line) == strip(line) = <<>>

\* lines 153-155 without the loop that flushes the pending blank lines
emitWithoutBlanks(log, ch, pending, line) == print(log, "line", ch, ">", rstrip(line))

\* lines 153-155 with the line printed once more after it
emitTwice(log, ch, pending, line) ==
    print(print(blanks(log, ch, pending), "line", ch, ">", rstrip(line)),
          "line", ch, ">", rstrip(line))

\* lines 153-155 with line 155 ahead of the loop of lines 153-154
emitTextFirst(log, ch, pending, line) ==
    blanks(print(log, "line", ch, ">", rstrip(line)), ch, pending)

\* lines 153-155
emit(log, ch, pending, line) == print(blanks(log, ch, pending), "line", ch, ">", rstrip(line))

\* line 157
tailResult(handler, buf) == IF handler.capture THEN Str(join(buf)) ELSE None

\* line 135, were the loop to stop at a line of whitespace
loopEndsOnBlank(line) == strip(line) = <<>>

\* line 135: `while line:` ends the loop after the empty string of end-of-input
loopEnds(line) == line = <<>>

\* lines 135-157: one turn of _tail_stream's loop, from the readline() that
\* suspends the task to the next one or to the return
TailLine(ch) ==
    /\ pc = "Draining"
    /\ tpc[ch] = "tail"
    /\ \E line_data \in {IF stream[ch] = <<>> THEN <<>> ELSE Head(stream[ch])} :
       \E line \in {decode(line_data)} :
       \E buf \in {capture(output, captured[ch], line)} :
           /\ stream' = [stream EXCEPT ![ch] = IF @ = <<>> THEN @ ELSE Tail(@)]
           /\ captured' = [captured EXCEPT ![ch] = buf]
           /\ IF isBlank(line)
              THEN /\ empty_lines' = [empty_lines EXCEPT ![ch] = @ + 1]
                   /\ printed' = printed
              ELSE /\ printed' = emit(printed, ch, empty_lines[ch], line)
                   /\ empty_lines' = [empty_lines EXCEPT ![ch] = 0]
           /\ IF loopEnds(line)
              THEN /\ tpc' = [tpc EXCEPT ![ch] = "closed"]
                   /\ collected' = [collected EXCEPT ![ch] = tailResult(output, buf)]
              ELSE UNCHANGED <<tpc, collected>>
    /\ UNCHANGED <<pc, req, command, stdin, spawned, childIn, written, returncode,
                   result, exc, pp>>

\* line 203: both tasks are done and gather() hands back their values
CollectDone ==
    /\ pc = "Draining"
    /\ \A c \in Channels : tpc[c] = "closed"
    /\ pc' = "Drained"
    /\ UNCHANGED <<req, command, stdin, printed, spawned, childIn, written, stream,
                   tpc, captured, empty_lines, collected, returncode, result, exc, pp>>

\* proc.returncode once the child has exited: an int
Code(n) == [type |-> "int", val |-> n]

\* line 204: the child has exited
Wait ==
    /\ pc = "Drained"
    /\ \E c \in ExitCodes : returncode' = Code(c)
    /\ pc' = "Waited"
    /\ UNCHANGED <<req, command, stdin, printed, spawned, childIn, written, stream,
                   tpc, captured, empty_lines, collected, result, exc, pp>>

\* line 205
Close ==
    /\ pc = "Waited"
    /\ printed' = close(printed, output, returncode.val)
    /\ pc' = "Reported"
    /\ UNCHANGED <<req, command, stdin, spawned, childIn, written, stream, tpc,
                   captured, empty_lines, collected, returncode, result, exc, pp>>

\* result.py
ShellResult(code, out, err) == [returncode |-> code, stdout |-> out, stderr |-> err]

\* ShellException.__init__, lines 28-30: the message alone reaches Exception
ShellException(res) ==
    [type |-> "ShellException", args |-> <<"Process exit with code", res.returncode>>]

\* line 208 without the test of the exit code
mustRaiseAnyCode(check, res) == check

\* line 208
mustRaise(check, res) == check /\ res.returncode # 0

\* lines 207-210
Finish ==
    /\ pc = "Reported"
    /\ result' = ShellResult(returncode.val, collected["stdout"], collected["stderr"])
    /\ IF mustRaise(req.check, result')
       THEN /\ exc' = ShellException(result')
            /\ pc' = "Raised"
       ELSE /\ exc' = exc
            /\ pc' = "Returned"
    /\ UNCHANGED <<req, command, stdin, printed, spawned, childIn, written, stream,
                   tpc, captured, empty_lines, collected, returncode, pp>>

Next ==
    \/ Build
    \/ Open
    \/ SpawnOk
    \/ SpawnFail
    \/ WriteStdin
    \/ StartCollect
    \/ \E ch \in Channels : ReadEncoded(ch)
    \/ \E ch \in Channels : TailLine(ch)
    \/ CollectDone
    \/ Wait
    \/ Close
    \/ Finish

Spec == Init /\ [][Next]_vars

(***************************************************************************)
(* Lines 196-203 with the pipes spelled out, in bytes.  The runner and the *)
(* tasks are coroutines of one event loop; the loop itself moves bytes     *)
(* between the pipes and the streams' buffers whenever it gets control:    *)
(*   - proc.stdin.write() puts into the pipe what fits and buffers the     *)
(*     rest; above the high-water mark the protocol is paused until the    *)
(*     buffer is down to the low-water mark, a quarter of the high one,    *)
(*     and drain() waits while it is paused;                               *)
(*   - the loop feeds a StreamReader from its pipe until the reader holds  *)
(*     more than twice its limit, and resumes once a read by a task has    *)
(*     brought it back to the limit.                                       *)
(* The child first reads `pre` bytes of its stdin, then writes `out` bytes *)
(* to one of its output streams, then reads its stdin to the end, exits.   *)
(***************************************************************************)
PipeCap == 1

HighWater == 1

ReadLimit == 1

MaxPayload == PipeCap + HighWater + 2

MaxOut == PipeCap + 2 * ReadLimit + 2

PipeRequest(n) ==
    [command |-> Str(<<"l", "s">>), user |-> None, stdin |-> Bytes([i \in 1..n |-> 104]),
     check |-> TRUE, display |-> TRUE, quiet |-> FALSE, capture |-> TRUE]

\* the state line 196 is reached in, for a call with a stdin payload
InitPipes ==
    /\ pc = "Spawned"
    /\ \E n \in 1..MaxPayload : req = PipeRequest(n)
    /\ command = bashCommand(req)
    /\ stdin = encodeStdin(req.stdin)
    /\ printed = open(<<>>, OutputHandler(command, req))
    /\ spawned = spawnArgs(command, stdin)
    /\ childIn = [pipe |-> TRUE, data |-> <<>>, closed |-> FALSE]
    /\ written = NoProc
    /\ stream = NoProc
    /\ tpc = [c \in Channels |-> "none"]
    /\ captured = NoProc
    /\ empty_lines = [c \in Channels |-> 0]
    /\ collected = [c \in Channels |-> None]
    /\ returncode = None
    /\ result = None
    /\ exc = None
    /\ \E pre \in 0..Len(stdin.val), out \in 0..MaxOut, ch \in Channels :
          pp = [at       |-> "write",
                tx       |-> 0,
                txPaused |-> FALSE,
                closing  |-> FALSE,
                inPipe   |-> 0,
                inEof    |-> FALSE,
                outPipe  |-> [c \in Channels |-> 0],
                rd       |-> [c \in Channels |-> 0],
                rdPaused |-> [c \in Channels |-> FALSE],
                tasks    |-> FALSE,
                child    |-> [at |-> "pre", pre |-> pre, out |-> out, ch |-> ch]]

main == <<pc, req, command, stdin, printed, spawned, childIn, written, stream,
          tpc, captured, empty_lines, collected, returncode, result, exc>>

\* line 196: whether calling collect() starts the two tasks.  collect is an
\* `async def`: the call makes a coroutine object, whose body (the gather)
\* runs only when line 203 awaits it
collectStartsTasks == FALSE

\* lines 196-199: collect() is called, then proc.stdin.write(stdin)
PWrite ==
    /\ pp # None /\ pp.at = "write"
    /\ LET n    == Len(stdin.val)
           fits == IF n <= PipeCap - pp.inPipe THEN n ELSE PipeCap - pp.inPipe
       IN  pp' = [pp EXCEPT !.at = "drain",
                            !.tasks = collectStartsTasks,
                            !.inPipe = @ + fits,
                            !.tx = n - fits,
                            !.txPaused = (n - fits > HighWater)]
    /\ UNCHANGED main

\* line 200: drain() returns once the protocol is not paused
PDrain ==
    /\ pp # None /\ pp.at = "drain"
    /\ ~pp.txPaused
    /\ pp' = [pp EXCEPT !.at = "close"]
    /\ UNCHANGED main

\* line 201: close() ends the child's input once the buffer has been flushed
PClose ==
    /\ pp # None /\ pp.at = "close"
    /\ pp' = [pp EXCEPT !.at = "await", !.closing = TRUE, !.inEof = (pp.tx = 0)]
    /\ UNCHANGED main

\* line 203: awaiting the coroutine runs collect(), which starts the tasks
PAwait ==
    /\ pp # None /\ pp.at = "await"
    /\ ~pp.tasks
    /\ pp' = [pp EXCEPT !.tasks = TRUE]
    /\ UNCHANGED main

\* the event loop writes buffered stdin into the pipe as the pipe has room
LoopFlush ==
    /\ pp # None /\ pp.tx > 0 /\ pp.inPipe < PipeCap
    /\ pp' = [pp EXCEPT !.tx = @ - 1,
                        !.inPipe = @ + 1,
                        !.txPaused = (pp.txPaused /\ pp.tx - 1 > HighWater \div 4),
                        !.inEof = (pp.closing /\ pp.tx - 1 = 0)]
    /\ UNCHANGED main

\* the event loop feeds a stream's reader from its pipe
LoopFeed(ch) ==
    /\ pp # None /\ pp.outPipe[ch] > 0 /\ ~pp.rdPaused[ch]
    /\ pp' = [pp EXCEPT !.outPipe[ch] = @ - 1,
                        !.rd[ch] = @ + 1,
                        !.rdPaused[ch] = (pp.rd[ch] + 1 > 2 * ReadLimit)]
    /\ UNCHANGED main

\* lines 136-137: a running task takes what its reader holds
PTaskRead(ch) ==
    /\ pp # None /\ pp.tasks /\ pp.rd[ch] > 0
    /\ pp' = [pp EXCEPT !.rd[ch] = 0, !.rdPaused[ch] = FALSE]
    /\ UNCHANGED main

\* the child reads a byte of its stdin
ChildRead ==
    /\ pp # None /\ pp.child.at \in {"pre", "rest"} /\ pp.inPipe > 0
    /\ ~(pp.child.at = "pre" /\ pp.child.pre = 0)
    /\ pp' = [pp EXCEPT !.inPipe = @ - 1,
                        !.child.pre = IF pp.child.at = "pre" THEN @ - 1 ELSE @]
    /\ UNCHANGED main

\* the child goes on to its next phase
ChildStep ==
    /\ pp # None
    /\ \/ /\ pp.child.at = "pre" /\ pp.child.pre = 0
          /\ pp' = [pp EXCEPT !.child.at = "write"]
       \/ /\ pp.child.at = "write" /\ pp.child.out = 0
          /\ pp' = [pp EXCEPT !.child.at = "rest"]
       \/ /\ pp.child.at = "rest" /\ pp.inPipe = 0 /\ pp.inEof
          /\ pp' = [pp EXCEPT !.child.at = "exited"]
    /\ UNCHANGED main

\* the child writes a byte of output, which blocks while the pipe is full
ChildWrite ==
    /\ pp # None /\ pp.child.at = "write" /\ pp.child.out > 0
    /\ pp.outPipe[pp.child.ch] < PipeCap
    /\ pp' = [pp EXCEPT !.outPipe[pp.child.ch] = @ + 1, !.child.out = @ - 1]
    /\ UNCHANGED main

NextPipes ==
    \/ PWrite
    \/ PDrain
    \/ PClose
    \/ PAwait
    \/ LoopFlush
    \/ \E ch \in Channels : LoopFeed(ch)
    \/ \E ch \in Channels : PTaskRead(ch)
    \/ ChildRead
    \/ ChildStep
    \/ ChildWrite

SpecPipes == InitPipes /\ [][NextPipes]_vars

\* the runner waits in drain() for the child to read, the child waits in a
\* write for the runner to read, and the loop can move nothing
Deadlocked ==
    /\ pp # None
    /\ pp.at = "drain" /\ pp.txPaused
    /\ pp.child.at = "write" /\ pp.child.out > 0
    /\ pp.outPipe[pp.child.ch] = PipeCap
    /\ ~ENABLED NextPipes

\* C1: in a run with a stdin payload the drains are running by the time the
\* payload is written, so that the runner is never stuck in the stdin write
\* while the child is stuck writing output
C1_NoStdinOutputDeadlock == ~Deadlocked

(***************************************************************************)
(* What the claims speak of.                                               *)
(***************************************************************************)
\* the print() calls a channel's tailer has made, in order
RECURSIVE LinesOf(_, _)
LinesOf(log, ch) ==
    IF log = <<>> THEN <<>>
    ELSE (IF Head(log).op = "line" /\ Head(log).ch = ch THEN <<Head(log).string>> ELSE <<>>)
         \o LinesOf(Tail(log), ch)

\* a line of nothing but whitespace, terminator included
Blank(bytes) == \A i \in 1..Len(bytes) : bytes[i] \in {10, 32}

\* the lines of a channel read so far
Consumed(ch) == SubSeq(written[ch], 1, Len(written[ch]) - Len(stream[ch]))

\* the position of the last line of `lines` that is not blank, 0 if none is
LastText(lines) ==
    IF \E i \in 1..Len(lines) : ~Blank(lines[i])
    THEN CHOOSE i \in 1..Len(lines) :
            ~Blank(lines[i]) /\ \A j \in (i + 1)..Len(lines) : Blank(lines[j])
    ELSE 0

\* `text` is `line` without its trailing whitespace
Stripped(text, line) ==
    /\ Len(text) <= Len(line)
    /\ text = SubSeq(line, 1, Len(text))
    /\ \A i \in (Len(text) + 1)..Len(line) : line[i] \in Whitespace
    /\ text = <<>> \/ text[Len(text)] \notin Whitespace

Ended == pc \in {"Returned", "Raised"}

\* C2: with quiet=True nothing is printed, whatever the exit code and the
\* output, display enabled or not
C2_QuietPrintsNothing == req.quiet => printed = <<>>

\* C3: with check the run raises ShellException exactly when the exit code
\* is not 0; without check it never raises; a returned result carries the
\* child's exit code
C3_RaisesIffCheckedNonZero ==
    Ended =>
        /\ (pc = "Raised") <=> (req.check /\ returncode.val # 0)
        /\ pc = "Raised" => exc.type = "ShellException"
        /\ pc = "Returned" => exc = None
        /\ result.returncode = returncode.val

C3_Witness == pc = "Raised" /\ returncode = Code(7) /\ req.check

\* C4: a raised ShellException carries the run's ShellResult
C4_FailureCarriesResult ==
    pc = "Raised" => ("result" \in DOMAIN exc /\ exc.result = result)

\* C5: a tailer makes no print() call for a blank line that follows the
\* last non-blank line of its stream, and its last call is for a non-blank
\* line
C5_TrailingBlanksDropped ==
    \A ch \in Channels :
        LET calls == LinesOf(printed, ch)
        IN  /\ Len(calls) <= LastText(written[ch])
            /\ calls # <<>> => calls[Len(calls)] # <<>>

C5_Witness ==
    /\ tpc["stdout"] = "closed"
    /\ req.display
    /\ LastText(written["stdout"]) \in 1..(Len(written["stdout"]) - 2)

\* C6: the calls a tailer has made are, in order, one per line it has read
\* up to the last non-blank one: an empty string for a blank line, the line
\* without its trailing whitespace otherwise; empty_lines counts the blank
\* lines read since
C6_InteriorBlanksKept ==
    \A ch \in Channels :
        tpc[ch] \in {"tail", "closed"} /\ req.display =>
            LET calls == LinesOf(printed, ch)
                read  == Consumed(ch)
                last  == LastText(read)
            IN  /\ Len(calls) = last
                /\ \A i \in 1..last :
                      IF Blank(read[i]) THEN calls[i] = <<>>
                      ELSE calls[i] # <<>> /\ Stripped(calls[i], decode(read[i]))
                /\ tpc[ch] = "tail" => empty_lines[ch] = Len(read) - last

C6_Witness ==
    /\ req.display
    /\ LET calls == LinesOf(printed, "stdout")
       IN  /\ Len(calls) = 3
           /\ calls[1] = <<>> /\ calls[2] = <<>> /\ calls[3] = <<" ", "a">>

\* C7: with display and capture the text returned for a channel is that
\* channel's stream, every line with its terminator, blank lines included
C7_CaptureIsTheStream ==
    req.display /\ req.capture =>
        /\ \A ch \in Channels :
              tpc[ch] = "closed" => collected[ch] = Str(decode(join(written[ch])))
        /\ Ended => /\ result.stdout = Str(decode(join(written["stdout"])))
                    /\ result.stderr = Str(decode(join(written["stderr"])))

C7_Witness ==
    /\ pc = "Returned" /\ req.display /\ req.capture
    /\ written["stdout"] = << <<32, 97, 32, 10>>, <<10>>, <<32, 10>> >>
    /\ written["stderr"] = << <<101, 10>> >>
    /\ LinesOf(printed, "stderr") # <<>>

\* C8: a stdin payload of any length gets a pipe, is written to it, and the
\* pipe is closed; without a payload there is no pipe
C8_PayloadPipedAndClosed ==
    pc \in {"StdinDone", "Draining", "Drained", "Waited", "Reported", "Returned", "Raised"} =>
        IF req.stdin # None
        THEN /\ spawned.stdin = "PIPE"
             /\ childIn.pipe /\ childIn.closed
             /\ childIn.data = stdin.val
        ELSE spawned.stdin = "None" /\ ~childIn.pipe

\* C9: a spawn error reaches the caller and, unless quiet, is printed by
\* OutputHandler.exception
C9_SpawnFailureReported ==
    pc = "Error" /\ spawned # None =>
        /\ exc # None
        /\ ~req.quiet => \E i \in 1..Len(printed) : printed[i].op = "exception"

\* C10: with user=u the invocation is the bash invocation behind
\* sudo --user=u --login, and without a user it has no sudo prefix
C10_UserPrefixesSudo ==
    spawned # None =>
        LET bash == << <<"b", "a", "s", "h">>, <<"-", "c">>, req.command.val >>
            want == IF req.user = None THEN bash
                    ELSE << <<"s", "u", "d", "o">>,
                            <<"-", "-", "u", "s", "e", "r", "=">> \o req.user.val,
                            <<"-", "-", "l", "o", "g", "i", "n">> >> \o bash
        IN  /\ command.full = want
            /\ spawned.cmd = joinSpace([i \in 1..Len(want) |-> shlex_quote(want[i])])

(***************************************************************************)
(* Command construction on its own: a caller builds a Command from a       *)
(* command, a user and a directory.                                        *)
(***************************************************************************)
MaxWordLen == 2

WordChars == {"a", " ", "'", "\"", "\\", "$"}

Words == UNION {[1..k -> WordChars] : k \in 0..MaxWordLen}

\* the lists of up to two arguments, each a str or a Path
Args == {Str(w) : w \in Words} \cup {Path(<<"/", "a", " ">>)}

ArgLists == {<<>>} \cup {<<v>> : v \in Args} \cup {<<v, w>> : v \in Args, w \in Args}

Directories == {None, Str(<<>>), Str(<<"/", "d", " ", "'">>), Path(<<"/", "d">>)}

\* a list with no user and no directory, or a string with any of them
CommandInputs ==
    {[command |-> List(l), user |-> None, directory |-> None] : l \in ArgLists}
    \cup [command : {Str(w) : w \in Words}, user : Users, directory : Directories]

InitCommand ==
    /\ pc = "New"
    /\ req \in CommandInputs
    /\ command = None
    /\ stdin = None
    /\ printed = <<>>
    /\ spawned = None
    /\ childIn = [pipe |-> FALSE, data |-> <<>>, closed |-> FALSE]
    /\ written = NoProc
    /\ stream = NoProc
    /\ tpc = [c \in Channels |-> "none"]
    /\ captured = NoProc
    /\ empty_lines = [c \in Channels |-> 0]
    /\ collected = [c \in Channels |-> None]
    /\ returncode = None
    /\ result = None
    /\ exc = None
    /\ pp = None

\* lines 47-62
NewCommand ==
    /\ pc = "New"
    /\ command' = Command(req.command, req.user, req.directory)
    /\ pc' = "Made"
    /\ UNCHANGED <<req, stdin, printed, spawned, childIn, written, stream, tpc,
                   captured, empty_lines, collected, returncode, result, exc, pp>>

NextCommand == NewCommand

SpecCommand == InitCommand /\ [][NextCommand]_vars

(***************************************************************************)
(* How a POSIX shell splits a command line into words and removes the      *)
(* quoting: blanks separate words, '...' is literal, "..." is literal but  *)
(* for $ and \, a backslash makes the next character literal.  A place     *)
(* where the shell would do something other than take a character for the  *)
(* word (an expansion, an operator, a missing closing quote) puts the      *)
(* mark "<shell>" into the word.                                           *)
(***************************************************************************)
ShellOperators ==
    {"$", "&", "(", ")", ";", "|", "<", ">", "*", "?", "[", "~", "#", "\n"}

\* the shell's state after one more character: its mode, the word it is
\* reading and the words it has read
shellStep(st, c) ==
    CASE st.mode = "single" ->
            IF c = "'" THEN [st EXCEPT !.mode = "word"]
            ELSE [st EXCEPT !.cur = Append(@, c)]
      [] st.mode = "double" ->
            IF c = "\"" THEN [st EXCEPT !.mode = "word"]
            ELSE IF c = "\\" THEN [st EXCEPT !.mode = "double\\"]
            ELSE [st EXCEPT !.cur = Append(@, IF c = "$" THEN "<shell>" ELSE c)]
      [] st.mode = "double\\" ->
            [st EXCEPT !.mode = "double",
                       !.cur = IF c \in {"$", "\"", "\\"} THEN Append(@, c)
                               ELSE @ \o <<"\\", c>>]
      [] st.mode = "\\" -> [st EXCEPT !.mode = "word", !.cur = Append(@, c)]
      [] OTHER ->
            IF c = " "
            THEN [mode |-> "blank", cur |-> <<>>,
                  words |-> IF st.mode = "word" THEN Append(st.words, st.cur) ELSE st.words]
            ELSE IF c = "'" THEN [st EXCEPT !.mode = "single"]
            ELSE IF c = "\"" THEN [st EXCEPT !.mode = "double"]
            ELSE IF c = "\\" THEN [st EXCEPT !.mode = "\\"]
            ELSE [st EXCEPT !.mode = "word",
                            !.cur = Append(@, IF c \in ShellOperators THEN "<shell>" ELSE c)]

\* the shell's state after the characters s[lo..hi], read from state st; the
\* string is read by halves, each half's state computed before the next
RECURSIVE shellRead(_, _, _, _)
shellRead(st, s, lo, hi) ==
    IF lo > hi THEN st
    ELSE IF lo = hi THEN shellStep(st, s[lo])
    ELSE CHOOSE out \in {shellRead(half, s, (lo + hi) \div 2 + 1, hi) :
                            half \in {shellRead(st, s, lo, (lo + hi) \div 2)}} : TRUE

ShellWords(s) ==
    LET st == shellRead([mode |-> "blank", cur |-> <<>>, words |-> <<>>], s, 1, Len(s))
    IN  CASE st.mode = "blank" -> st.words
          [] st.mode = "word" -> Append(st.words, st.cur)
          [] OTHER -> Append(st.words, Append(st.cur, "<shell>"))

Texts(values) == [i \in 1..Len(values) |-> values[i].val]

\* C11: the invocation is ["bash", "-c", inner], where inner is the raw
\* string, or `cd <quoted directory> && (<raw string>)` when there is a
\* directory; with a user it is prefixed by sudo, --user=<user>, --login;
\* an empty raw string is passed through
C11_InvocationShape ==
    pc = "Made" =>
        LET raw   == IF req.command.type = "str" THEN req.command.val ELSE command.string
            inner == IF req.directory = None \/ req.directory = Str(<<>>) THEN raw
                     ELSE <<"c", "d", " ">> \o quote(req.directory)
                          \o <<" ", "&", "&", " ", "(">> \o raw \o <<")">>
            n     == Len(command.full)
        IN  /\ command.string = raw
            /\ SubSeq(command.full, n - 2, n) =
                  << <<"b", "a", "s", "h">>, <<"-", "c">>, inner >>
            /\ IF req.user = None THEN n = 3
               ELSE /\ n = 6
                    /\ SubSeq(command.full, 1, 3) =
                          << <<"s", "u", "d", "o">>,
                             <<"-", "-", "u", "s", "e", "r", "=">> \o req.user.val,
                             <<"-", "-", "l", "o", "g", "i", "n">> >>

C11_Witness ==
    /\ pc = "Made"
    /\ req.user # None /\ req.directory = Path(<<"/", "d">>)
    /\ req.command = Str(<<>>)
    /\ command.full[6] = <<"c", "d", " ", "/", "d", " ", "&", "&", " ", "(", ")">>

\* C12: a shell reading quote(v) gets the one word v; reading
\* join_command(list) it gets the list, and reading Command.full_string it
\* gets the invocation
C12_QuoteRoundTrip ==
    pc = "Made" =>
        /\ ShellWords(command.full_string) = command.full
        /\ req.command.type = "list" =>
              /\ ShellWords(command.string) = Texts(req.command.val)
              /\ \A i \in 1..Len(req.command.val) :
                    ShellWords(quote(req.command.val[i])) = <<req.command.val[i].val>>
        /\ req.command.type = "str" =>
              ShellWords(quote(req.command)) = <<req.command.val>>
        /\ req.directory # None =>
              ShellWords(quote(req.directory)) = <<req.directory.val>>

C12_Witness ==
    /\ pc = "Made"
    /\ req.command = List(<<Str(<<"'", "$">>), Str(<<>>)>>)
    /\ command.string = <<"'", "'", "\"", "'", "\"", "'", "$", "'", " ", "'", "'">>

(***************************************************************************)
(* Display off, capture off.                                               *)
(***************************************************************************)
\* the print() calls a tailer makes for the lines `read`: one per line up
\* to the last non-blank one
ExpectedCalls(read) ==
    [i \in 1..LastText(read) |->
        IF Blank(read[i]) THEN <<>> ELSE rstrip(decode(read[i]))]

\* C13: with display=False no line is ever printed for either channel, and
\* the text returned for a channel is its whole stream, decoded as one
\* piece: blank lines, terminators and trailing whitespace included
C13_NoDisplayReadsBlob ==
    ~req.display =>
        /\ \A i \in 1..Len(printed) : printed[i].op # "line"
        /\ \A ch \in Channels :
              /\ tpc[ch] # "tail"
              /\ tpc[ch] = "closed" =>
                    /\ collected[ch] = Str(decode(join(written[ch])))
                    /\ stream[ch] = <<>>
        /\ Ended => /\ result.stdout = Str(decode(join(written["stdout"])))
                    /\ result.stderr = Str(decode(join(written["stderr"])))

C13_Witness ==
    /\ pc = "Returned" /\ ~req.display /\ ~req.quiet
    /\ written["stdout"] = << <<10>>, <<32, 97, 32, 10>>, <<32, 10>> >>
    /\ result.stdout = Str(<<"\n", " ", "a", " ", "\n", " ", "\n">>)
    /\ Len(printed) = 2

\* C14: with capture off the value returned for a channel is None, with
\* display on and with display off, and so are stdout and stderr of the
\* ShellResult; the lines printed are those of the stream whether capture
\* is on or off
C14_CaptureOffReturnsNothing ==
    /\ ~req.capture =>
          /\ \A ch \in Channels : tpc[ch] = "closed" => collected[ch] = None
          /\ Ended => result.stdout = None /\ result.stderr = None
    /\ \A ch \in Channels :
          LinesOf(printed, ch) = IF req.display THEN ExpectedCalls(Consumed(ch)) ELSE <<>>

(***************************************************************************)
(* bash(), the synchronous entry point, lines 213-217.  The caller is      *)
(* either plain code or code running inside an event loop.                 *)
(***************************************************************************)
BashRequests ==
    [command : Commands, user : {None}, stdin : {None, Other(5)}, check : {TRUE},
     display : BOOLEAN, quiet : {FALSE}, capture : {TRUE},
     wait : BOOLEAN, loop : BOOLEAN]

InitBash ==
    /\ pc = "Call"
    /\ req \in BashRequests
    /\ command = None
    /\ stdin = None
    /\ printed = <<>>
    /\ spawned = None
    /\ childIn = [pipe |-> FALSE, data |-> <<>>, closed |-> FALSE]
    /\ written = NoProc
    /\ stream = NoProc
    /\ tpc = [c \in Channels |-> "none"]
    /\ captured = NoProc
    /\ empty_lines = [c \in Channels |-> 0]
    /\ collected = [c \in Channels |-> None]
    /\ returncode = None
    /\ result = None
    /\ exc = None
    /\ pp = None

\* line 217, were asyncio.run to run the coroutine inside the running loop
asyncio_run_nested(running) == "run"

\* line 217: asyncio.run refuses to start when the thread has a running loop
asyncio_run(running) == IF running THEN "RuntimeError" ELSE "run"

\* lines 213-217: bash_async(...) makes a coroutine, of which nothing has run;
\* it is handed back, or given to asyncio.run
bash ==
    /\ pc = "Call"
    /\ IF ~req.wait
       THEN pc' = "Coroutine" /\ exc' = exc
       ELSE IF asyncio_run(req.loop) = "run"
       THEN pc' = "Start" /\ exc' = exc
       ELSE pc' = "Error" /\ exc' = [type |-> "RuntimeError"]
    /\ UNCHANGED <<req, command, stdin, printed, spawned, childIn, written, stream,
                   tpc, captured, empty_lines, collected, returncode, result, pp>>

\* the caller of bash(wait=False) awaits the coroutine it was given
AwaitCoroutine ==
    /\ pc = "Coroutine"
    /\ pc' = "Start"
    /\ UNCHANGED <<req, command, stdin, printed, spawned, childIn, written, stream,
                   tpc, captured, empty_lines, collected, returncode, result, exc, pp>>

NextBash == bash \/ AwaitCoroutine \/ Next

SpecBash == InitBash /\ [][NextBash]_vars

\* C15: bash(wait=True) called while an event loop is running ends at once
\* in a RuntimeError: bash_async does not start, nothing is printed and no
\* child is created
C15_ReentrantCallFailsFast ==
    req.wait /\ req.loop =>
        /\ pc \in {"Call", "Error"}
        /\ pc = "Call" => ENABLED bash
        /\ pc = "Error" => exc = [type |-> "RuntimeError"]
        /\ printed = <<>> /\ spawned = None /\ command = None
        /\ \A c \in Channels : tpc[c] = "none"

C15_Witness == pc = "Error" /\ req.wait /\ req.loop /\ exc.type = "RuntimeError"

(***************************************************************************)
(* The stdin payload.                                                      *)
(***************************************************************************)
\* C16: a stdin that is not None, bytes or str ends the call in an
\* AssertionError before anything is printed and before a child is
\* created; a str is encoded to its utf-8 bytes, bytes are left as they are
C16_StdinTypeChecked ==
    /\ req.stdin.type \notin {"None", "bytes", "str"} =>
          /\ pc \in {"Call", "Coroutine", "Start", "Error"}
          /\ pc = "Error" => exc = [type |-> "AssertionError"]
          /\ printed = <<>> /\ spawned = None
    /\ pc \notin {"Call", "Coroutine", "Start", "Error"} =>
          /\ req.stdin.type = "str" =>
                /\ stdin = Bytes(encode(req.stdin.val))
                /\ decode(stdin.val) = req.stdin.val
          /\ req.stdin.type \in {"bytes", "None"} => stdin = req.stdin

C16_Witness ==
    /\ pc = "Error" /\ req.stdin = Other(5)
    /\ exc.type = "AssertionError" /\ printed = <<>> /\ spawned = None

(***************************************************************************)
(* The order of the calls on the handler.                                  *)
(***************************************************************************)
Closes(log) == {i \in 1..Len(log) : log[i].op = "close"}

\* the exit code a close() call was given
ClosedCode(entry) == IF entry.symbol = "[check]" THEN 0 ELSE entry.string[2]

\* C17: close(returncode) is called once: not before both tailers have
\* ended and the wait is over, and before the result is made and returned
\* or raised; its code is the returncode of the ShellResult
C17_CloseOnceAfterDrainAndWait ==
    /\ pc \in {"Reported", "Returned", "Raised"} =>
          /\ \A ch \in Channels : tpc[ch] = "closed" /\ stream[ch] = <<>>
          /\ returncode # None /\ returncode.val \in ExitCodes
    /\ pc = "Reported" => result = None /\ exc = None
    /\ Ended => result.returncode = returncode.val
    /\ ~req.quiet =>
          IF pc \in {"Reported", "Returned", "Raised"}
          THEN /\ Closes(printed) = {Len(printed)}
               /\ ClosedCode(printed[Len(printed)]) = returncode.val
          ELSE Closes(printed) = {}

C17_Witness ==
    /\ pc = "Raised" /\ ~req.quiet /\ returncode = Code(7)
    /\ printed[Len(printed)].op = "close"
    /\ ClosedCode(printed[Len(printed)]) = 7

IsPrefix(s, t) == Len(s) <= Len(t) /\ s = SubSeq(t, 1, Len(s))

\* C18: a step only ever adds to the lines printed for a channel, what is
\* printed for a channel is a prefix of the calls its stream calls for, in
\* the stream's order, and lines are printed only between open() and
\* close(): while the tailers run
C18_LinesInStreamOrder ==
    [][\A ch \in Channels :
          LET before == LinesOf(printed, ch)
              after  == LinesOf(printed', ch)
          IN  /\ IsPrefix(before, after)
              /\ IsPrefix(after, ExpectedCalls(written'[ch]))
              /\ after # before =>
                    /\ pc = "Draining" /\ pc' = "Draining"
                    /\ ~req.quiet => /\ printed[1].op = "open"
                                     /\ Closes(printed') = {}]_vars

C18_Witness ==
    /\ pc = "Returned" /\ ~req.quiet
    /\ Len(printed) = 5
    /\ printed[2].op = "line" /\ printed[2].ch = "stdout"
    /\ printed[3].op = "line" /\ printed[3].ch = "stderr"
    /\ printed[4].op = "line" /\ printed[4].ch = "stdout"
    /\ printed[2].string = <<" ", "a">> /\ printed[4].string = <<" ", "a">>

\* C19: the blank lines a tailer prints and the non-blank line that made it
\* print them are printed next to each other: a printed blank line is
\* followed at once by a line of the same channel
C19_BlanksFlushedWithTheirLine ==
    \A i \in 1..Len(printed) :
        printed[i].op = "line" /\ printed[i].string = <<>> =>
            /\ i < Len(printed)
            /\ printed[i + 1].op = "line"
            /\ printed[i + 1].ch = printed[i].ch

C19_Witness ==
    /\ Len(printed) >= 5
    /\ printed[2].op = "line" /\ printed[2].ch = "stdout" /\ printed[2].string # <<>>
    /\ printed[3].op = "line" /\ printed[3].ch = "stderr"
    /\ printed[4].op = "line" /\ printed[4].ch = "stdout" /\ printed[4].string = <<>>
    /\ printed[5].op = "line" /\ printed[5].ch = "stdout" /\ printed[5].string # <<>>
    /\ \E ch \in Channels : tpc[ch] = "tail"

(***************************************************************************)
(* Runs without a stdin payload, under a fair event loop: a step that can  *)
(* be taken is taken.  The child's streams are finite and the child exits. *)
(***************************************************************************)
FairRequests ==
    {r \in Requests : r.stdin = None /\ r.check /\ ~r.quiet /\ r.capture}

InitFair == Init /\ req \in FairRequests

\* every step of Next changes the runner's position, a tailer's position or
\* what is left of a stream
position == <<pc, tpc, stream>>

SpecFair == InitFair /\ [][Next]_vars /\ WF_position(Next)

\* the states of a run from the spawn on, in the order they are passed
RunOrder ==
    {<<"Spawned", "StdinDone">>, <<"StdinDone", "Draining">>, <<"Draining", "Drained">>,
     <<"Drained", "Waited">>, <<"Waited", "Reported">>, <<"Reported", "Returned">>,
     <<"Reported", "Raised">>}

\* C20: without stdin a run that has spawned its child ends, returned or
\* raised; on the way it passes Spawned, both tailers closed, Waited and
\* Reported in this order; a tailer closes only at the end of its stream,
\* and at the end of its stream it can close
C20_RunEnds ==
    /\ (pc = "Spawned" /\ req.stdin = None) ~> Ended
    /\ [][/\ spawned # None /\ pc' # pc /\ pc' # "Error" => <<pc, pc'>> \in RunOrder
          /\ pc' = "Drained" => \A ch \in Channels : tpc'[ch] = "closed"
          /\ \A ch \in Channels :
                /\ tpc[ch] # "closed" /\ tpc'[ch] = "closed" =>
                      stream'[ch] = <<>> /\ (tpc[ch] = "tail" => stream[ch] = <<>>)
                /\ tpc[ch] = "closed" => tpc'[ch] = "closed"]_vars
    /\ [](\A ch \in Channels :
            tpc[ch] = "tail" /\ stream[ch] = <<>> => ENABLED TailLine(ch))

C20_Witness ==
    /\ pc = "Returned" /\ req.stdin = None
    /\ Len(written["stdout"]) = MaxLines
    /\ Blank(written["stdout"][1])
    /\ \A ch \in Channels : tpc[ch] = "closed"

====
